---- MODULE Spec2Model ----
(***************************************************************************)
(* A model of burshlatt/CPP_Tools: the file handle (filesystem::file_t),   *)
(* the file reader/writer and the interactive directory navigator          *)
(* (filesystem::monitoring::get_file_path), over an explicit model of the  *)
(* filesystem that other processes may change between the program's steps. *)
(*                                                                         *)
(* The repository holds three generations of the navigator; the variable   *)
(* `variant` says which one runs:                                          *)
(*   "old"  console_tools::filesystem_monitoring (part_001, part_000:188)  *)
(*   "mid"  tools::filesystem::monitoring of src/tools.hpp                 *)
(*   "new"  tools::filesystem::monitoring of part_000:580                  *)
(***************************************************************************)
EXTENDS Integers, Sequences, FiniteSets, TLC

VARIABLES
    variant,    \* which generation of the code runs
    fs,         \* the filesystem: absolute segment sequence -> [dir, data]
    denied,     \* nodes whose permissions forbid open/list/create-in
    envSteps,   \* number of changes other processes made so far
    creates,    \* number of filenames entered after token "c" so far
    path,       \* get_file_path: the local fs::path path (current_path)
    dirs_,      \* the token table: token -> <<is_directory, name>>
    pc,         \* get_file_path: position in the loop
    opt,        \* the token read last
    filename,   \* the filename read last after token "c"
    msg,        \* the error line on the screen ("" when none)
    result,     \* the string get_file_path returned
    lastEnum,   \* the entries of the last listing, in enumeration order
    fpath,      \* file_t::path_
    text_,      \* file_t::text_
    size_,      \* file_t::size_
    outcome,    \* how the last file operation ended
    start_point_,   \* time::monitoring::start_point_
    end_point_,     \* time::monitoring::end_point_
    clock,      \* what std::chrono::system_clock::now() reads
    marks,      \* which of set_start_point / set_end_point ran since the last
                \* get_time_offset that returned
    timed,      \* how the last call on the timer ended
    cin,        \* std::cin: the tokens and line ends not yet read
    input_value,    \* get_correct_int: the token read last
    int_result, \* get_correct_int: int result
    is_correct, \* get_correct_int: bool is_correct
    errors      \* number of "ERROR: Invalid input!" lines printed so far

vars == <<variant, fs, denied, envSteps, creates, path, dirs_, pc, opt, filename, msg,
          result, lastEnum, fpath, text_, size_, outcome,
          start_point_, end_point_, clock, marks, timed,
          cin, input_value, int_result, is_correct, errors>>

navVars  == <<path, dirs_, pc, opt, filename, msg, result, lastEnum>>
fileVars == <<fpath, text_, size_, outcome>>
timeVars == <<start_point_, end_point_, clock, marks, timed>>
readVars == <<cin, input_value, int_result, is_correct, errors>>

----------------------------------------------------------------------------
(* Bounds *)

\* how many changes other processes may make to the filesystem in one run
MaxEnv == 1

\* how many times the user may take the menu's "c" (create file) in one run
MaxCreate == 1

\* longest byte buffer handed to set_text
MaxLen == 2

\* how far the clock runs, in ticks after the epoch
MaxClock == 4

\* the ticks of the clock in one second
TicksPerSecond == 2

\* how many tokens and line ends standard input holds at most
MaxItems == 3

\* how many error messages get_correct_int is followed through
MaxErrors == 3

----------------------------------------------------------------------------
(* Paths: std::filesystem::path in its generic (POSIX) format.  A path is  *)
(* a root flag and its sequence of segments; a trailing "/" is a final     *)
(* empty segment, as in the iteration of std::filesystem::path.            *)

TmpName == "temporary_file.txt"

Names == {"a", "s", TmpName}

Variants == {"old", "mid", "new"}

P(abs, segs) == [abs |-> abs, segs |-> segs]

EmptyPath == P(FALSE, <<>>)

Front(s) == SubSeq(s, 1, Len(s) - 1)

Last(s) == s[Len(s)]

\* fs::current_path(): the process working directory
cwd == P(TRUE, <<"s">>)

\* path::filename()
Filename(p) == IF p.segs = <<>> THEN "" ELSE Last(p.segs)

\* path::remove_filename(): "/a/b" -> "/a/", "b" -> "", "/a/" -> "/a/"
RemoveFilename(p) ==
    IF Filename(p) = "" THEN p
    ELSE IF Len(p.segs) = 1 THEN P(p.abs, <<>>)
    ELSE P(p.abs, Front(p.segs) \o <<"">>)

\* path::parent_path(): "/a/b" -> "/a", "/a/" -> "/a", "/" -> "/"
ParentPath(p) == IF p.segs = <<>> THEN p ELSE P(p.abs, Front(p.segs))

\* operator/ and operator/=
Slash(p, q) ==
    IF q.abs THEN q
    ELSE IF p.segs # <<>> /\ Last(p.segs) = "" THEN P(p.abs, Front(p.segs) \o q.segs)
    ELSE IF q.segs = <<>> /\ p.segs # <<>> THEN P(p.abs, p.segs \o <<"">>)
    ELSE P(p.abs, p.segs \o q.segs)

\* fs::path(std::string) of a plain name typed by the user or read from a listing
NamePath(name) == P(FALSE, <<name>>)

\* path::generic_string(): the characters of the path, names kept whole
RECURSIVE JoinSegs(_)
JoinSegs(segs) ==
    IF segs = <<>> THEN <<>>
    ELSE IF Len(segs) = 1 THEN <<segs[1]>>
    ELSE <<segs[1], "/">> \o JoinSegs(Tail(segs))

GenericString(p) ==
    LET body == SelectSeq(JoinSegs(p.segs), LAMBDA c : c # "")
    IN  IF p.abs THEN <<"/">> \o body ELSE body

\* fs::path(std::string_view): parse the characters back into a path
RECURSIVE SplitSegs(_)
SplitSegs(str) ==
    IF str = <<>> THEN <<>>
    ELSE IF str[1] = "/" THEN
        (IF Len(str) = 1 THEN <<"">> ELSE SplitSegs(Tail(str)))
    ELSE <<str[1]>> \o SplitSegs(Tail(str))

ParsePath(str) ==
    IF str = <<>> THEN EmptyPath
    ELSE IF str[1] = "/" THEN P(TRUE, SplitSegs(Tail(str)))
    ELSE P(FALSE, SplitSegs(str))

----------------------------------------------------------------------------
(* The filesystem *)

Dir == [dir |-> TRUE, data |-> <<>>]

File(bytes) == [dir |-> FALSE, data |-> bytes]

\* the absolute segments a path resolves to (relative paths start at cwd)
Resolve(p) == IF p.abs THEN p.segs ELSE cwd.segs \o p.segs

\* stat(): "none", "dir" or "file"; the empty path names nothing, and a
\* trailing "/" resolves only through a directory
Kind(f, p) ==
    IF p = EmptyPath THEN "none"
    ELSE LET r == Resolve(p)
             n == IF r # <<>> /\ Last(r) = "" THEN Front(r) ELSE r
         IN  IF n \notin DOMAIN f THEN "none"
             ELSE IF f[n].dir THEN "dir"
             ELSE IF n # r THEN "none"
             ELSE "file"

\* fs::exists
Exists(f, p) == Kind(f, p) # "none"

\* fs::is_directory
IsDirectory(f, p) == Kind(f, p) = "dir"

\* the node a path names (without a trailing separator)
Node(p) ==
    LET r == Resolve(p)
    IN  IF r # <<>> /\ Last(r) = "" THEN Front(r) ELSE r

\* the names of the immediate entries of directory node n
Children(f, n) == {Last(m) : m \in {k \in DOMAIN f : Len(k) = Len(n) + 1 /\ Front(k) = n}}

\* node m lies in the subtree of node n
Under(m, n) == Len(m) >= Len(n) /\ SubSeq(m, 1, Len(n)) = n

\* the filesystem without node n and what lies under it
Removed(f, n) == [m \in {k \in DOMAIN f : ~Under(k, n)} |-> f[m]]

InitFS ==
    (<<>> :> Dir) @@ (<<"a">> :> File(<<>>)) @@ (<<"s">> :> Dir) @@
    (<<"s", "a">> :> File(<<1>>)) @@ (<<"s", "s">> :> Dir) @@
    (<<"s", "s", "a">> :> File(<<>>))

----------------------------------------------------------------------------
(* Opening files *)

\* std::ofstream(p, std::ios::out).is_open(): the parent is a directory, the
\* target is no directory, and the permissions allow it
CanOpenW(f, d, p) ==
    LET n == Node(p)
    IN  /\ p # EmptyPath
        /\ Filename(p) # ""
        /\ Front(n) \in DOMAIN f
        /\ f[Front(n)].dir
        /\ n \in DOMAIN f => (~f[n].dir /\ n \notin d)
        /\ n \notin DOMAIN f => Front(n) \notin d

\* std::ifstream(p).is_open()
CanOpenR(f, d, p) == Kind(f, p) = "file" /\ Node(p) \notin d

\* (mutant) an open that keeps what an existing file holds
WrittenKeeping(f, p, bytes) ==
    IF Node(p) \in DOMAIN f THEN f ELSE (Node(p) :> File(bytes)) @@ f

\* the filesystem after std::ofstream(p, std::ios::out) opened p and wrote bytes
Written(f, p, bytes) == (Node(p) :> File(bytes)) @@ f

----------------------------------------------------------------------------
(* filesystem::file_t *)

\* file_t::file_t(): the sentinel path
DefaultPath == Slash(cwd, NamePath(TmpName))

\* (mutant) set_path without its check of the parent
SetPathUnchecked(f, cur, p) ==
    IF IsDirectory(f, p) THEN Slash(p, NamePath(TmpName)) ELSE p

\* (mutant) set_path without its rewrite of a directory
SetPathVerbatim(f, cur, p) ==
    IF Exists(f, RemoveFilename(p)) THEN p ELSE cur

\* file_t::set_path: the value of path_ afterwards, cur being its value before
SetPath(f, cur, p) ==
    IF Exists(f, RemoveFilename(p))
    THEN IF IsDirectory(f, p) THEN Slash(p, NamePath(TmpName)) ELSE p
    ELSE cur

\* the value of path_ when a constructor that takes a path starts set_path:
\* src/tools.hpp constructs path_ empty, the later file delegates to file_t()
CtorBasePath(v) == IF v = "new" THEN DefaultPath ELSE EmptyPath

\* a file_t value: path_, text_ and size_
Handle(p, t, n) == [path |-> p, text |-> t, size |-> n]

\* (mutant) set_text without its size_ = text.size()
SetTextKeepsSize(h, t) == Handle(h.path, t, h.size)

\* file_t::set_text: text_ = text; size_ = text.size();
SetText(h, t) == Handle(h.path, t, Len(t))

\* file_t::file_t()
Ctor0 == Handle(DefaultPath, <<>>, 0)

\* file_t::file_t(path)
CtorPath(v, f, p) == Handle(SetPath(f, CtorBasePath(v), p), <<>>, 0)

\* file_t::file_t(text) and file_t(text, size), both delegating to file_t()
CtorText(t) == SetText(Ctor0, t)

\* (mutant) file_t(path, text) without its set_text
CtorPathTextDropsText(v, f, p, t) == CtorPath(v, f, p)

\* file_t::file_t(path, text) and file_t(path, text, size)
CtorPathText(v, f, p, t) == SetText(CtorPath(v, f, p), t)

\* char& operator[](int index), assigned through, for 0 <= index < size
StoreAt(h, index, byte) == Handle(h.path, [h.text EXCEPT ![index + 1] = byte], h.size)

\* std::string get_text() const
get_text(h) == h.text

\* fs::path get_path_fs() const
get_path_fs(h) == h.path

\* std::string get_path() const
get_path(h) == GenericString(h.path)

\* std::size_t size() const noexcept
size(h) == h.size

----------------------------------------------------------------------------
(* filesystem::monitoring::read_file and write_file.  f is the filesystem   *)
(* when the call checks the path, fOpen the filesystem when it opens the    *)
(* stream (another process may have removed the file in between).           *)

CannotOpen(p) == <<"Error: Cannot open file: ", Filename(p)>>

Returned(h) == [thrown |-> FALSE, what |-> <<>>, file |-> h]

Thrown(what) == [thrown |-> TRUE, what |-> what, file |-> Ctor0]

\* (mutant) read_file answering a stream that did not open with an empty file
ReadFileSwallowing(v, f, fOpen, d, p) ==
    IF ~Exists(f, p) \/ IsDirectory(f, p) THEN Returned(Ctor0)
    ELSE IF CanOpenR(fOpen, d, p)
         THEN Returned(CtorPathText(v, fOpen, p, fOpen[Node(p)].data))
         ELSE Returned(Ctor0)

ReadFile(v, f, fOpen, d, p) ==
    IF ~Exists(f, p) \/ IsDirectory(f, p) THEN Returned(Ctor0)
    ELSE IF CanOpenR(fOpen, d, p)
         THEN Returned(CtorPathText(v, fOpen, p, fOpen[Node(p)].data))
         ELSE Thrown(CannotOpen(p))

\* std::ofstream(path, std::ios::app) << text: the bytes are appended, and a
\* file that is missing at the open is created
Appended(fOpen, p, t) ==
    Written(fOpen, p, (IF Node(p) \in DOMAIN fOpen THEN fOpen[Node(p)].data ELSE <<>>) \o t)

WriteFile(f, fOpen, d, p, t) ==
    IF ~Exists(f, p) \/ IsDirectory(f, p) THEN [thrown |-> FALSE, what |-> <<>>, fs |-> fOpen]
    ELSE IF CanOpenW(fOpen, d, p)
         THEN [thrown |-> FALSE, what |-> <<>>, fs |-> Appended(fOpen, p, t)]
         ELSE [thrown |-> TRUE, what |-> CannotOpen(p), fs |-> fOpen]

----------------------------------------------------------------------------
(* filesystem::monitoring::create_file(path), per generation.  The value   *)
(* is the filesystem afterwards and whether std::ios_base::failure left    *)
(* the call.                                                               *)

Outcome(f, thrown) == [fs |-> f, thrown |-> thrown]

\* part_001:166-167: std::ofstream file(path / filename); file.close();
CreateFileOld(f, d, p) ==
    IF CanOpenW(f, d, p) THEN Outcome(Written(f, p, <<>>), FALSE)
    ELSE Outcome(f, FALSE)

\* src/tools.hpp:330-346
CreateFileMid(f, d, p) ==
    IF Exists(f, RemoveFilename(p))
    THEN LET new_file == IF IsDirectory(f, p) THEN Slash(p, NamePath(TmpName)) ELSE p
         IN  IF CanOpenW(f, d, new_file)
             THEN Outcome(Written(f, new_file, <<>>), FALSE)
             ELSE Outcome(f, TRUE)
    ELSE Outcome(f, FALSE)

\* part_000:639-654: create_file(file_t(path)), the handle's text being empty
\* (mutant) create_file(path) creating the file of a file_t that was given no path
CreateFileAtDefault(f, d, p) ==
    IF CanOpenW(f, d, DefaultPath)
    THEN Outcome(Written(f, DefaultPath, <<>>), FALSE)
    ELSE Outcome(f, TRUE)

CreateFileNew(f, d, p) ==
    LET file_path == SetPath(f, DefaultPath, p)
    IN  IF CanOpenW(f, d, file_path)
        THEN Outcome(Written(f, file_path, <<>>), FALSE)
        ELSE Outcome(f, TRUE)

CreateFile(v, f, d, p) ==
    IF v = "old" THEN CreateFileOld(f, d, p)
    ELSE IF v = "mid" THEN CreateFileMid(f, d, p)
    ELSE CreateFileNew(f, d, p)

----------------------------------------------------------------------------
(* The token table *)

digits == <<"0", "1", "2", "3", "4", "5", "6", "7", "8", "9">>

\* std::to_string(int) of a number >= 0
RECURSIVE to_string(_)
to_string(n) ==
    IF n < 10 THEN digits[n + 1]
    ELSE to_string(n \div 10) \o digits[(n % 10) + 1]

EmptyTable == [t \in {} |-> <<FALSE, "">>]

\* dirs_[key] = value
Put(d, key, value) == [t \in DOMAIN d \cup {key} |-> IF t = key THEN value ELSE d[t]]

\* the first number the listing loop assigns: int num{1}
FirstNum == 1

\* (mutant) the loop without its num++
RECURSIVE FillNoIncrement(_, _, _)
FillNoIncrement(d, entries, num) ==
    IF entries = <<>> THEN d
    ELSE FillNoIncrement(Put(d, to_string(num), entries[1]), Tail(entries), num)

\* the loop of print_filesystem over the entries, num counting up
RECURSIVE Fill(_, _, _)
Fill(d, entries, num) ==
    IF entries = <<>> THEN d
    ELSE Fill(Put(d, to_string(num), entries[1]), Tail(entries), num + 1)

\* the table print_filesystem starts from: the "new" code clears the member,
\* the "old" code declares a fresh local map, src/tools.hpp keeps the member
TableBase(v, d) == IF v = "mid" THEN d ELSE EmptyTable

\* every order fs::directory_iterator may yield the entries of node n in,
\* each entry as <<is_directory, name>>
Enumerations(f, n) ==
    LET names == Children(f, n)
        k     == Cardinality(names)
        perms == {s \in [1..k -> names] : \A i, j \in 1..k : i # j => s[i] # s[j]}
    IN  {[i \in 1..k |-> <<f[n \o <<s[i]>>].dir, s[i]>>] : s \in perms}

Reserved == {"0", "b", "c", "d"}

\* what the user may type at the menu
Tokens == Reserved \cup {to_string(i) : i \in 1..Cardinality(Names)} \cup {"x"}

----------------------------------------------------------------------------
(* What the last operation on files was: its name, its path argument,     *)
(* whether it threw and with what message; tick flips at each operation.  *)
(* For a constructor given bytes, `text` holds the bytes it was given.     *)

Did(op, arg, thrown, what, tick) ==
    [op |-> op, arg |-> arg, thrown |-> thrown, what |-> what, tick |-> tick,
     text |-> <<>>]

Given(did, t) == [did EXCEPT !.text = t]

----------------------------------------------------------------------------
(* Other processes: the filesystem changes between the program's steps.    *)

Running == pc \in {"list", "read", "filename"}

\* rm -r of node n
EnvRemove(n) ==
    /\ envSteps < MaxEnv
    /\ n \in DOMAIN fs /\ n # <<>>
    /\ fs' = Removed(fs, n)
    /\ denied' = {k \in denied : ~Under(k, n)}
    /\ envSteps' = envSteps + 1

\* touch / mkdir of a new entry `name` in directory node n
EnvCreate(n, name, isdir) ==
    /\ envSteps < MaxEnv
    /\ n \in DOMAIN fs /\ fs[n].dir
    /\ (n \o <<name>>) \notin DOMAIN fs
    /\ fs' = ((n \o <<name>>) :> (IF isdir THEN Dir ELSE File(<<>>))) @@ fs
    /\ envSteps' = envSteps + 1
    /\ UNCHANGED denied

\* chmod a-rw of node n
EnvDeny(n) ==
    /\ envSteps < MaxEnv
    /\ n \in DOMAIN fs /\ n \notin denied
    /\ denied' = denied \cup {n}
    /\ envSteps' = envSteps + 1
    /\ UNCHANGED fs

EnvStep ==
    \/ \E n \in DOMAIN fs : EnvRemove(n)
    \/ \E n \in DOMAIN fs, name \in Names, isdir \in BOOLEAN : EnvCreate(n, name, isdir)
    \/ \E n \in DOMAIN fs : EnvDeny(n)

----------------------------------------------------------------------------
(* time::monitoring (time_monitoring in the oldest file): the same code in *)
(* all three generations.  A time point is a number of clock ticks since   *)
(* the epoch; the clock of a running system reads after the epoch.         *)

\* time_type(): the default-constructed time point, the epoch
Epoch == 0

\* std::chrono::time_point_cast<std::chrono::seconds>(t).time_since_epoch().count()
Seconds(t) == t \div TicksPerSecond

\* (mutant) the difference returned as the signed number it is
SizeTSigned(n) == [base |-> "0", plus |-> n]

\* a std::size_t made of the signed difference n: n itself, or 2^64 + n when
\* n is negative (2^64 is beyond the integers of the checker)
SizeT(n) == [base |-> IF n < 0 THEN "2^64" ELSE "0", plus |-> n]

MissingStart == "Time.err(): missing start point"

MissingEnd == "Time.err(): missing end point"

\* how a call on the timer ended; n flips at each call
Timed(op, thrown, what, value, n) ==
    [op |-> op, thrown |-> thrown, what |-> what, value |-> value, n |-> n]

\* (mutant) get_time_offset without its reset of the two points
GetTimeOffsetKeepsPoints(s, e) ==
    IF s = Epoch THEN [thrown |-> TRUE, what |-> MissingStart, start |-> s, end |-> e,
                       value |-> SizeT(0)]
    ELSE IF e = Epoch THEN [thrown |-> TRUE, what |-> MissingEnd, start |-> s, end |-> e,
                            value |-> SizeT(0)]
    ELSE [thrown |-> FALSE, what |-> "", start |-> s, end |-> e,
          value |-> SizeT(Seconds(e) - Seconds(s))]

\* get_time_offset on the points s and e: whether it throws and with what,
\* the points afterwards and the value returned (none when it throws)
GetTimeOffset(s, e) ==
    IF s = Epoch THEN [thrown |-> TRUE, what |-> MissingStart, start |-> s, end |-> e,
                       value |-> SizeT(0)]
    ELSE IF e = Epoch THEN [thrown |-> TRUE, what |-> MissingEnd, start |-> s, end |-> e,
                            value |-> SizeT(0)]
    ELSE [thrown |-> FALSE, what |-> "", start |-> Epoch, end |-> Epoch,
          value |-> SizeT(Seconds(e) - Seconds(s))]

\* monitoring timer;
TimerIdle ==
    /\ start_point_ = Epoch
    /\ end_point_ = Epoch
    /\ clock = 1
    /\ marks = {}
    /\ timed = Timed("monitoring()", FALSE, "", SizeT(0), 0)

TimerFrame == UNCHANGED <<variant, fs, denied, envSteps, creates, navVars, fileVars,
                          readVars>>

\* timer.set_start_point();
SetStartPoint ==
    /\ start_point_' = clock
    /\ marks' = marks \cup {"start"}
    /\ timed' = Timed("set_start_point", FALSE, "", SizeT(0), 1 - timed.n)
    /\ UNCHANGED <<end_point_, clock>>
    /\ TimerFrame

\* timer.set_end_point();
SetEndPoint ==
    /\ end_point_' = clock
    /\ marks' = marks \cup {"end"}
    /\ timed' = Timed("set_end_point", FALSE, "", SizeT(0), 1 - timed.n)
    /\ UNCHANGED <<start_point_, clock>>
    /\ TimerFrame

\* timer.get_time_offset();
GetTimeOffsetOp ==
    /\ LET r == GetTimeOffset(start_point_, end_point_)
       IN  /\ start_point_' = r.start
           /\ end_point_' = r.end
           /\ marks' = IF r.thrown THEN marks ELSE {}
           /\ timed' = Timed("get_time_offset", r.thrown, r.what, r.value, 1 - timed.n)
    /\ UNCHANGED clock
    /\ TimerFrame

\* time passes
Tick ==
    /\ clock < MaxClock
    /\ clock' = clock + 1
    /\ UNCHANGED <<start_point_, end_point_, marks, timed>>
    /\ TimerFrame

----------------------------------------------------------------------------
(* console::get_correct_int: the same code in all generations.  Standard   *)
(* input is a sequence of tokens and line ends; a token is a sequence of   *)
(* characters without white space.                                         *)

\* the end of a line on standard input, as an item of the stream
NL == <<"\n">>

\* the largest int; the smallest is -INT_MAX - 1
INT_MAX == 2147483647

Digits == {"0", "1", "2", "3", "4", "5", "6", "7", "8", "9"}

DigitValue(c) == CHOOSE i \in 0..9 : digits[i + 1] = c

\* the longest prefix of str made of decimal digits
RECURSIVE LeadingDigits(_)
LeadingDigits(str) ==
    IF str = <<>> \/ str[1] \notin Digits THEN <<>>
    ELSE <<str[1]>> \o LeadingDigits(Tail(str))

\* strtol's accumulation of the digits ds onto acc, towards the sign given;
\* "range" when the value leaves the range of int
RECURSIVE Accumulate(_, _, _)
Accumulate(ds, acc, negative) ==
    IF ds = <<>> THEN [ok |-> TRUE, value |-> acc]
    ELSE LET d == DigitValue(ds[1])
         IN  IF negative
             THEN IF acc < -(INT_MAX \div 10)
                     \/ (acc = -(INT_MAX \div 10) /\ d > (INT_MAX % 10) + 1)
                  THEN [ok |-> FALSE, value |-> 0]
                  ELSE Accumulate(Tail(ds), acc * 10 - d, negative)
             ELSE IF acc > INT_MAX \div 10
                     \/ (acc = INT_MAX \div 10 /\ d > INT_MAX % 10)
                  THEN [ok |-> FALSE, value |-> 0]
                  ELSE Accumulate(Tail(ds), acc * 10 + d, negative)

\* std::stoi(str): an optional sign, then the longest run of decimal digits;
\* what follows the digits is ignored.  It throws std::invalid_argument when
\* there is no digit and std::out_of_range when the value is no int.
Stoi(str) ==
    LET signed   == str # <<>> /\ str[1] \in {"+", "-"}
        negative == str # <<>> /\ str[1] = "-"
        ds       == LeadingDigits(IF signed THEN Tail(str) ELSE str)
        r        == Accumulate(ds, 0, negative)
    IN  IF ds = <<>> THEN [thrown |-> TRUE, what |-> "invalid_argument", value |-> 0]
        ELSE IF ~r.ok THEN [thrown |-> TRUE, what |-> "out_of_range", value |-> 0]
        ELSE [thrown |-> FALSE, what |-> "", value |-> r.value]

\* operator>> skipping white space: the stream without its leading line ends
RECURSIVE SkipWs(_)
SkipWs(stream) ==
    IF stream # <<>> /\ stream[1] = NL THEN SkipWs(Tail(stream)) ELSE stream

\* std::cin.ignore(max, '\n'): the stream after the next line end
RECURSIVE IgnoreLine(_)
IgnoreLine(stream) ==
    IF stream = <<>> THEN <<>>
    ELSE IF stream[1] = NL THEN Tail(stream)
    ELSE IgnoreLine(Tail(stream))

\* the tokens a user may type
TokenInputs ==
    { <<"7">>,
      <<"-", "3">>,
      <<"1", "2", "x">>,
      <<"x">>,
      <<"+">>,
      <<"2", "1", "4", "7", "4", "8", "3", "6", "4", "7">>,
      <<"2", "1", "4", "7", "4", "8", "3", "6", "4", "8">>,
      <<"-", "2", "1", "4", "7", "4", "8", "3", "6", "4", "8">> }

\* what standard input may hold when get_correct_int is called
Streams == UNION {[1..n -> TokenInputs \cup {NL}] : n \in 0..MaxItems}

\* no call of get_correct_int is under way
ReaderIdle ==
    /\ cin = <<>>
    /\ input_value = <<>>
    /\ int_result = 0
    /\ is_correct = FALSE
    /\ errors = 0

\* one iteration of the loop: std::cin >> input_value (at the end of input
\* the string stays empty), std::stoi, and the catch block when it throws
Iterate ==
    /\ ~is_correct
    /\ LET rest  == SkipWs(cin)
           token == IF rest = <<>> THEN <<>> ELSE rest[1]
           after == IF rest = <<>> THEN <<>> ELSE Tail(rest)
           r     == Stoi(token)
       IN  /\ input_value' = token
           /\ IF r.thrown
              THEN /\ errors < MaxErrors
                   /\ errors' = errors + 1
                   /\ cin' = IgnoreLine(after)
                   /\ UNCHANGED <<int_result, is_correct>>
              ELSE /\ int_result' = r.value
                   /\ is_correct' = TRUE
                   /\ cin' = after
                   /\ UNCHANGED errors
    /\ UNCHANGED <<variant, fs, denied, envSteps, creates, navVars, fileVars, timeVars>>

----------------------------------------------------------------------------
(* filesystem::monitoring::get_file_path *)

\* std::string path_str{path.generic_string()} handed on as a string_view
PathStr(p) == GenericString(p)

\* print_filesystem + print_menu: fs::directory_iterator throws
\* fs::filesystem_error when the path is no directory that can be listed,
\* and nothing in get_file_path catches it
Render ==
    /\ pc = "list"
    /\ LET dir == ParsePath(PathStr(path))
       IN  IF IsDirectory(fs, dir) /\ Node(dir) \notin denied
           THEN \E e \in Enumerations(fs, Node(dir)) :
                    /\ dirs_' = Fill(TableBase(variant, dirs_), e, FirstNum)
                    /\ lastEnum' = e
                    /\ pc' = "read"
           ELSE /\ dirs_' = TableBase(variant, dirs_)
                /\ lastEnum' = <<>>
                /\ pc' = "thrown"
    /\ opt' = ""
    /\ filename' = ""
    /\ msg' = ""
    /\ UNCHANGED <<variant, fs, denied, envSteps, creates, path, result, fileVars,
                   timeVars, readVars>>

\* (mutant) a descend that leaves the path where it is
DescendStays(p, name) == p

\* the path `path /= name` yields for the entry a token maps to
Descend(p, name) == Slash(p, NamePath(name))

\* (mutant) "b" leaving the path where it is
Stay(p) == p

\* path = path.parent_path() on token "b"
Back(p) == ParentPath(p)

\* (mutant) the string returned being the entry's name alone
ReturnedName(p) == <<Filename(p)>>

\* return path_str; with path_str = path.generic_string()
ReturnedStr(p) == PathStr(p)

\* (mutant) the if-chain without its test of "0"
BranchWithoutExit(v, d, o) ==
    IF o = "d" /\ v = "new" THEN "directory"
    ELSE IF o = "b" THEN "back"
    ELSE IF o = "c" THEN "create"
    ELSE IF o \in DOMAIN d THEN "entry"
    ELSE "none"

\* (mutant) the if-chain without its test of "d"
BranchWithoutDirectory(v, d, o) ==
    IF o = "0" THEN "exit"
    ELSE IF o = "b" THEN "back"
    ELSE IF o = "c" THEN "create"
    ELSE IF o \in DOMAIN d THEN "entry"
    ELSE "none"

\* (mutant) the if-chain ending the loop on a token it does not know
BranchUnknownExits(v, d, o) ==
    IF o = "0" THEN "exit"
    ELSE IF o = "d" /\ v = "new" THEN "directory"
    ELSE IF o = "b" THEN "back"
    ELSE IF o = "c" THEN "create"
    ELSE IF o \in DOMAIN d THEN "entry"
    ELSE "exit"

\* the branch of the if-chain that token o takes, d being the token table;
\* only the latest code tests for "d"
Branch(v, d, o) ==
    IF o = "0" THEN "exit"
    ELSE IF o = "d" /\ v = "new" THEN "directory"
    ELSE IF o = "b" THEN "back"
    ELSE IF o = "c" THEN "create"
    ELSE IF o \in DOMAIN d THEN "entry"
    ELSE "none"

\* std::cin >> opt and the if-chain on it
Select(o) ==
    /\ pc = "read"
    /\ o = "c" => creates < MaxCreate
    /\ opt' = o
    /\ LET branch == Branch(variant, dirs_, o)
       IN  IF branch = "exit" THEN
                /\ pc' = "done"
                /\ result' = <<>>
                /\ UNCHANGED <<path, msg>>
           ELSE IF branch = "directory" THEN
                /\ pc' = "done"
                /\ result' = ReturnedStr(path)
                /\ UNCHANGED <<path, msg>>
           ELSE IF branch = "back" THEN
                /\ path' = Back(path)
                /\ pc' = "list"
                /\ UNCHANGED <<result, msg>>
           ELSE IF branch = "create" THEN
                /\ pc' = "filename"
                /\ UNCHANGED <<path, result, msg>>
           ELSE IF branch = "entry" THEN
                LET is_dir == dirs_[o][1]
                    name   == dirs_[o][2]
                    next   == Descend(path, name)
                IN  /\ path' = next
                    /\ IF is_dir THEN
                            /\ pc' = "list"
                            /\ UNCHANGED <<result, msg>>
                       ELSE IF ~Exists(fs, ParsePath(PathStr(next))) THEN
                            /\ msg' = "The file does not exist"
                            /\ pc' = "list"
                            /\ UNCHANGED result
                       ELSE /\ pc' = "done"
                            /\ result' = ReturnedStr(next)
                            /\ UNCHANGED msg
           ELSE /\ pc' = "list"
                /\ UNCHANGED <<path, result, msg>>
    /\ UNCHANGED <<variant, fs, denied, envSteps, creates, dirs_, filename, lastEnum,
                   fileVars, timeVars, readVars>>

\* std::cin >> filename; create_file(path / filename); continue;
EnterFilename(name) ==
    /\ pc = "filename"
    /\ filename' = name
    /\ creates' = creates + 1
    /\ LET r == CreateFile(variant, fs, denied, Slash(path, NamePath(name)))
       IN  /\ fs' = r.fs
           /\ pc' = IF r.thrown THEN "thrown" ELSE "list"
    /\ UNCHANGED <<variant, denied, envSteps, path, dirs_, opt, msg, result,
                   lastEnum, fileVars, timeVars, readVars>>

\* another process acts while get_file_path runs
Env ==
    /\ Running
    /\ EnvStep
    /\ UNCHANGED <<variant, creates, navVars, fileVars, timeVars, readVars>>

----------------------------------------------------------------------------
(* The navigator's specification *)

Init ==
    /\ variant \in Variants
    /\ fs = InitFS
    /\ denied = {}
    /\ envSteps = 0
    /\ creates = 0
    /\ path = cwd
    /\ dirs_ = EmptyTable
    /\ pc = "list"
    /\ opt = ""
    /\ filename = ""
    /\ msg = ""
    /\ result = <<>>
    /\ lastEnum = <<>>
    /\ fpath = Ctor0.path
    /\ text_ = Ctor0.text
    /\ size_ = Ctor0.size
    /\ outcome = Did("file_t()", EmptyPath, FALSE, <<>>, 0)
    /\ TimerIdle
    /\ ReaderIdle

Next ==
    \/ Render
    \/ \E o \in Tokens : Select(o)
    \/ \E name \in Names : EnterFilename(name)
    \/ Env

Spec == Init /\ [][Next]_vars

----------------------------------------------------------------------------
(* The file handle and the reader/writer: one file_t object `file` and the *)
(* calls a program makes on it and on filesystem::monitoring.  file_t and  *)
(* read_file exist in src/tools.hpp ("mid") and in the later file ("new"), *)
(* write_file only in the later one.                                       *)

Bytes == {0, 1}

Texts == UNION {[1..n -> Bytes] : n \in 0..MaxLen}

PathInputs ==
    { P(TRUE, <<"s", "a">>),    \* /s/a    a file
      P(TRUE, <<"s", "s">>),    \* /s/s    a directory
      P(TRUE, <<"a", "s">>),    \* /a/s    an entry of a file
      P(FALSE, <<"a">>),        \* a       relative, a plain name
      EmptyPath }

\* the paths handed to file_t: those above and two more spellings
HandlePaths ==
    PathInputs \cup
    { P(TRUE, <<"s", "s", "">>),   \* /s/s/  a directory, with a trailing separator
      P(FALSE, <<"s", "a">>) }    \* s/a    relative, a file of a subdirectory

Current == Handle(fpath, text_, size_)

Assign(h) == fpath' = h.path /\ text_' = h.text /\ size_' = h.size

\* the calls on filesystem::monitoring flip the tick, those on file_t keep it
Flip == 1 - outcome.tick

Keep == outcome.tick

FileFrame == UNCHANGED <<variant, fs, denied, envSteps, creates, navVars, timeVars, readVars>>

\* file_t file;
Construct0 ==
    /\ Assign(Ctor0)
    /\ outcome' = Did("file_t()", EmptyPath, FALSE, <<>>, Keep)
    /\ FileFrame

\* file_t file(path);
ConstructPath(p) ==
    /\ Assign(CtorPath(variant, fs, p))
    /\ outcome' = Did("file_t(path)", p, FALSE, <<>>, Keep)
    /\ FileFrame

\* file_t file(text);  file_t file(text, size);
ConstructText(t) ==
    /\ Assign(CtorText(t))
    /\ outcome' = Did("file_t(text)", EmptyPath, FALSE, <<>>, Keep)
    /\ FileFrame

\* file_t file(path, text);  file_t file(path, text, size);
ConstructPathText(p, t) ==
    /\ Assign(CtorPathText(variant, fs, p, t))
    /\ outcome' = Given(Did("file_t(path,text)", p, FALSE, <<>>, Keep), t)
    /\ FileFrame

\* file.set_path(path);
SetPathOp(p) ==
    /\ Assign(Handle(SetPath(fs, fpath, p), text_, size_))
    /\ outcome' = Did("set_path", p, FALSE, <<>>, Keep)
    /\ FileFrame

\* file.set_text(text);
SetTextOp(t) ==
    /\ Assign(SetText(Current, t))
    /\ outcome' = Did("set_text", EmptyPath, FALSE, <<>>, Keep)
    /\ FileFrame

\* file[index] = byte;
StoreByte(index, byte) ==
    /\ index \in 0..(Len(text_) - 1)
    /\ Assign(StoreAt(Current, index, byte))
    /\ outcome' = Did("operator[]", EmptyPath, FALSE, <<>>, Keep)
    /\ FileFrame

\* another process removes the file between the call's check and its open
Raced(race, p) == IF race THEN Removed(fs, Node(p)) ELSE fs

RaceFrame(race, p) ==
    /\ race => (envSteps < MaxEnv /\ Kind(fs, p) = "file")
    /\ envSteps' = IF race THEN envSteps + 1 ELSE envSteps
    /\ denied' = IF race THEN denied \ {Node(p)} ELSE denied

\* file = m.read_file(path);
ReadFileOp(p, race) ==
    /\ RaceFrame(race, p)
    /\ fs' = Raced(race, p)
    /\ LET r == ReadFile(variant, fs, Raced(race, p), denied, p)
       IN  /\ IF r.thrown THEN UNCHANGED <<fpath, text_, size_>> ELSE Assign(r.file)
           /\ outcome' = Did("read_file", p, r.thrown, r.what, Flip)
    /\ UNCHANGED <<variant, creates, navVars, timeVars, readVars>>

\* m.read_file(file);
ReadIntoOp ==
    /\ LET r == ReadFile(variant, fs, fs, denied, fpath)
       IN  /\ IF r.thrown THEN UNCHANGED <<fpath, text_, size_>> ELSE Assign(r.file)
           /\ outcome' = Did("read_file(file_t&)", fpath, r.thrown, r.what, Keep)
    /\ FileFrame

\* the length of the file a path names (0 when it names none)
DataLen(f, p) == IF Kind(f, p) = "file" THEN Len(f[Node(p)].data) ELSE 0

\* m.write_file(path, text);
WriteFileOp(p, t, race) ==
    /\ variant = "new"
    /\ DataLen(fs, p) + Len(t) <= MaxLen
    /\ RaceFrame(race, p)
    /\ LET r == WriteFile(fs, Raced(race, p), denied, p, t)
       IN  /\ fs' = r.fs
           /\ outcome' = Did("write_file", p, r.thrown, r.what, Flip)
    /\ UNCHANGED <<variant, creates, navVars, fpath, text_, size_, timeVars, readVars>>

\* another process acts between two calls: it removes a node or takes its
\* permissions away
FileEnv ==
    /\ \/ \E n \in DOMAIN fs : EnvRemove(n)
       \/ \E n \in DOMAIN fs : EnvDeny(n)
    /\ UNCHANGED <<variant, creates, navVars, fileVars, timeVars, readVars>>

FileInit ==
    /\ variant \in {"mid", "new"}
    /\ fs = InitFS
    /\ denied = {}
    /\ envSteps = 0
    /\ creates = 0
    /\ path = cwd
    /\ dirs_ = EmptyTable
    /\ pc = "idle"
    /\ opt = ""
    /\ filename = ""
    /\ msg = ""
    /\ result = <<>>
    /\ lastEnum = <<>>
    /\ fpath = Ctor0.path
    /\ text_ = Ctor0.text
    /\ size_ = Ctor0.size
    /\ outcome = Did("file_t()", EmptyPath, FALSE, <<>>, 0)
    /\ TimerIdle
    /\ ReaderIdle

FileNext ==
    \/ Construct0
    \/ \E p \in HandlePaths : ConstructPath(p)
    \/ \E t \in Texts : ConstructText(t)
    \/ \E p \in HandlePaths, t \in Texts : ConstructPathText(p, t)
    \/ \E p \in HandlePaths : SetPathOp(p)
    \/ \E t \in Texts : SetTextOp(t)
    \/ \E i \in 0..MaxLen, b \in Bytes : StoreByte(i, b)
    \/ ReadIntoOp
    \/ FileEnv

FileSpec == FileInit /\ [][FileNext]_vars

----------------------------------------------------------------------------
(* The reader and the writer alone: read_file(path) and write_file on the  *)
(* paths a program may hand them, the file object holding what read_file   *)
(* returned last.                                                          *)

IoNext ==
    \/ \E p \in PathInputs, race \in BOOLEAN : ReadFileOp(p, race)
    \/ \E p \in PathInputs, t \in Texts, race \in BOOLEAN : WriteFileOp(p, t, race)
    \/ FileEnv

IoSpec == FileInit /\ [][IoNext]_vars

----------------------------------------------------------------------------
(* The timer alone: one time::monitoring object and the calls on it as the *)
(* clock runs.                                                             *)

TimerInit == Init

TimerNext ==
    \/ SetStartPoint
    \/ SetEndPoint
    \/ GetTimeOffsetOp
    \/ Tick

TimerSpec == TimerInit /\ [][TimerNext]_vars

----------------------------------------------------------------------------
(* The integer reader alone: one call of get_correct_int on what standard  *)
(* input holds.                                                            *)

ReaderInit ==
    /\ variant \in Variants
    /\ fs = InitFS
    /\ denied = {}
    /\ envSteps = 0
    /\ creates = 0
    /\ path = cwd
    /\ dirs_ = EmptyTable
    /\ pc = "idle"
    /\ opt = ""
    /\ filename = ""
    /\ msg = ""
    /\ result = <<>>
    /\ lastEnum = <<>>
    /\ fpath = Ctor0.path
    /\ text_ = Ctor0.text
    /\ size_ = Ctor0.size
    /\ outcome = Did("file_t()", EmptyPath, FALSE, <<>>, 0)
    /\ TimerIdle
    /\ cin \in Streams
    /\ input_value = <<>>
    /\ int_result = 0
    /\ is_correct = FALSE
    /\ errors = 0

ReaderNext == Iterate

ReaderSpec == ReaderInit /\ [][ReaderNext]_vars

----------------------------------------------------------------------------
(* Vocabulary of the navigator's claims *)

\* the navigator is in its loop (the state Browsing)
Browsing == pc \in {"list", "read", "filename"}

\* get_file_path returned a path / returned the empty string
Selected == pc = "done" /\ result # <<>>

Cancelled == pc = "done" /\ result = <<>>

\* this step is the navigator resolving the token it read
Resolved == pc = "read" /\ pc' # "read"

\* this step is a listing render that did not throw
Rendered == pc = "list" /\ pc' = "read"

\* this step is the navigator creating the file whose name it read
Created == pc = "filename" /\ pc' # "filename"

\* this step is one of the navigator's own, not another process's
NavigatorStep == envSteps' = envSteps

\* the decimal numerals, written out
Numerals == <<"1", "2", "3", "4", "5", "6", "7", "8", "9">>

\* the last listing mapped token o to the entry <<is_dir, name>>
Listed(o, is_dir, name) ==
    \E i \in 1..Len(lastEnum) : o = Numerals[i] /\ lastEnum[i] = <<is_dir, name>>

\* the tokens 1..n as strings
NumeralTokens(n) == {Numerals[i] : i \in 1..n}

\* the names a token table maps to
TableNames(d) == {d[t][2] : t \in DOMAIN d}

\* this step is a call on filesystem::monitoring (read_file, write_file)
IoStep == outcome'.tick # outcome.tick

\* this step is an operation on the file_t object
HandleStep == envSteps' = envSteps

\* node n is a directory of filesystem f
IsDirNode(f, n) == n \in DOMAIN f /\ f[n].dir

\* the filesystem a call's stream is opened on: another process removed the
\* file after the call's check exactly when the step counts a change
AtOpen(p) == IF envSteps' # envSteps THEN Removed(fs, Node(p)) ELSE fs

\* an input stream on p opens / an output stream on p opens
OpensForRead(f, p) == Kind(f, p) = "file" /\ Node(p) \notin denied

OpensForWrite(f, p) ==
    \/ Kind(f, p) = "file" /\ Node(p) \notin denied
    \/ /\ Kind(f, p) = "none" /\ p # EmptyPath /\ Filename(p) # ""
       /\ IsDirNode(f, Front(Node(p))) /\ Front(Node(p)) \notin denied

Constructors == {"file_t()", "file_t(path)", "file_t(text)", "file_t(path,text)"}

WithPath == {"file_t(path)", "file_t(path,text)"}

\* segments without a trailing separator
Trimmed(segs) == IF segs # <<>> /\ Last(segs) = "" THEN Front(segs) ELSE segs

\* the path D/temporary_file.txt
InDirectory(D) == P(D.abs, Trimmed(D.segs) \o <<"temporary_file.txt">>)

\* p without its final segment: "/a/b" -> "/a", "b" -> "", "/a/" -> "/a"
ParentOf(p) == IF p.segs = <<>> THEN p ELSE P(p.abs, SubSeq(p.segs, 1, Len(p.segs) - 1))

\* the path p/name of an entry `name` of directory p
Entry(p, name) == P(p.abs, p.segs \o <<name>>)

\* the tokens the menu of a generation reserves
ReservedIn(v) == IF v = "new" THEN {"0", "b", "c", "d"} ELSE {"0", "b", "c"}


----------------------------------------------------------------------------
(* C1: selecting a numeric token that the last listing mapped to a file    *)
(* which no longer exists emits an error message, keeps the navigator in   *)
(* Browsing and leaves current_path as it was before the step.             *)
C1_StaleFileKeepsPath ==
    [][(Resolved /\ \E name \in Names :
            /\ Listed(opt', FALSE, name)
            /\ ~Exists(fs, Descend(path, name)))
        => (msg' # "" /\ Browsing' /\ path' = path)]_vars

(* C2: in every Browsing state current_path names an existing directory:   *)
(* it starts at the working directory and every transition of the          *)
(* navigator that stays in Browsing preserves this.                        *)
C2_PathStaysDirectory ==
    [][(Browsing /\ IsDirectory(fs, path) /\ NavigatorStep /\ Browsing')
        => IsDirectory(fs', path')]_vars

(* C3: immediately after each listing render the keys of the token table   *)
(* are exactly the tokens assigned to the entries just listed; no token of *)
(* an earlier render remains resolvable.                                   *)
C3_TableRebuiltFresh ==
    pc = "read" => DOMAIN dirs_ = NumeralTokens(Len(lastEnum))

(* C4: a failed descend (the selected token maps to a directory that no    *)
(* longer exists or cannot be listed) leaves current_path and the token    *)
(* table unchanged and the navigator in Browsing.                          *)
C4_FailedDescendKeepsState ==
    [][(Resolved /\ \E name \in Names :
            /\ Listed(opt', TRUE, name)
            /\ \/ ~IsDirectory(fs, Descend(path, name))
               \/ Node(Descend(path, name)) \in denied)
        => (Browsing' /\ path' = path /\ dirs_' = dirs_)]_vars

C6_SetPathInvalidParentIsNoOp ==
    [][(HandleStep /\ outcome'.op = "set_path" /\ ~Exists(fs, ParentPath(outcome'.arg)))
        => (fpath' = fpath /\ ~outcome'.thrown)]_vars

\* set_path("/a/s") with /a gone left the handle at /s/a
C6_Witness ==
    /\ outcome.op = "set_path"
    /\ outcome.arg = P(TRUE, <<"a", "s">>)
    /\ <<"a">> \notin DOMAIN fs
    /\ fpath = P(TRUE, <<"s", "a">>)

(* C7: every construction variant gives the sentinel path of no-argument   *)
(* construction when no path is supplied or the supplied path's parent     *)
(* does not exist.                                                         *)
C7_ConstructorsShareSentinel ==
    [][(HandleStep /\ outcome'.op \in Constructors
        /\ (outcome'.op \in WithPath => ~Exists(fs, ParentPath(outcome'.arg))))
        => fpath' = P(TRUE, <<"s", TmpName>>)]_vars

C9_LoopEndsOnlyByReturning ==
    ~Browsing => (Selected \/ Cancelled)

(* C10: one render of a directory enumerated as e1..en assigns exactly the *)
(* tokens "1".."n", token i mapping to (is_directory(ei), name(ei)); no    *)
(* assigned token is a reserved token.                                     *)
C10_TokensContiguousFromOne ==
    [][Rendered =>
        LET n        == Len(lastEnum')
            assigned == {t \in DOMAIN dirs_' :
                            t \notin DOMAIN TableBase(variant, dirs_)
                            \/ dirs_'[t] # TableBase(variant, dirs_)[t]}
        IN  /\ {lastEnum'[i][2] : i \in 1..n} = Children(fs, Node(path))
            /\ n = Cardinality(Children(fs, Node(path)))
            /\ \A i \in 1..n :
                   /\ Numerals[i] \in DOMAIN dirs_'
                   /\ dirs_'[Numerals[i]] =
                          <<IsDirectory(fs, Descend(path, lastEnum'[i][2])), lastEnum'[i][2]>>
            /\ assigned \subseteq NumeralTokens(n)
            /\ NumeralTokens(n) \cap Reserved = {}
            /\ variant # "mid" => DOMAIN dirs_' = NumeralTokens(n)]_vars

\* the listing [a.txt, sub/] of the specification: file "a" as 1, directory "s" as 2
C10_Witness ==
    /\ pc = "read"
    /\ lastEnum = << <<FALSE, "a">>, <<TRUE, "s">> >>
    /\ dirs_ = ("1" :> <<FALSE, "a">>) @@ ("2" :> <<TRUE, "s">>)

C12_SizeIsLengthOfContents ==
    size(Current) = Len(get_text(Current))

\* an element write into a two-byte buffer
C12_Witness ==
    /\ outcome.op = "operator[]"
    /\ get_text(Current) = <<1, 0>>
    /\ size(Current) = 2

(* C13 as stated: for every (path, bytes) whose path has an existing       *)
(* parent and names no directory, the handle constructed from the pair     *)
(* gives back exactly that path and those bytes.                           *)
C13_RoundTripExistingParent ==
    [][(HandleStep /\ outcome'.op = "file_t(path,text)"
        /\ Exists(fs, ParentOf(outcome'.arg)) /\ ~IsDirectory(fs, outcome'.arg))
        => /\ get_path_fs(Current') = outcome'.arg
           /\ get_path(Current') = GenericString(outcome'.arg)
           /\ get_text(Current') = outcome'.text]_vars

(* C13 amended: for every (path, bytes) whose path has an existing         *)
(* directory as its parent and names no directory, the handle constructed  *)
(* from the pair gives back exactly that path (as a path and as a string)  *)
(* and those bytes.                                                        *)
C13_RoundTripParentDirectory ==
    [][(HandleStep /\ outcome'.op = "file_t(path,text)"
        /\ IsDirectory(fs, ParentOf(outcome'.arg)) /\ ~IsDirectory(fs, outcome'.arg))
        => /\ get_path_fs(Current') = outcome'.arg
           /\ get_path(Current') = GenericString(outcome'.arg)
           /\ get_text(Current') = outcome'.text]_vars

\* file_t(fs::path("s/a"), {1, 0}) reads back as s/a and {1, 0}
C13_Witness ==
    /\ outcome.op = "file_t(path,text)"
    /\ outcome.arg = P(FALSE, <<"s", "a">>)
    /\ outcome.text = <<1, 0>>
    /\ get_path(Current) = <<"s", "/", "a">>
    /\ get_text(Current) = <<1, 0>>

(* C14: selecting a numeric token that the current listing maps to a       *)
(* directory `name` sets current_path to current_path/name; the navigator  *)
(* stays in Browsing and returns nothing.                                  *)
C14_DirectoryTokenDescends ==
    [][\A name \in Names :
        (Resolved /\ Listed(opt', TRUE, name))
        => /\ path' = Entry(path, name)
           /\ Browsing'
           /\ result' = result
           /\ fs' = fs]_vars

\* the token of directory s taken in /s
C14_Witness ==
    /\ pc = "list" /\ opt \in {"1", "2"} /\ msg = ""
    /\ path = P(TRUE, <<"s", "s">>)
    /\ IsDirNode(fs, <<"s", "s">>)

(* C15: selecting a numeric token that the current listing maps to a file  *)
(* `name`, current_path/name still existing at the selection, ends the     *)
(* browsing in Selected, the returned path being current_path/name, an     *)
(* absolute path.                                                          *)
C15_FileTokenSelects ==
    [][\A name \in Names :
        (Resolved /\ Listed(opt', FALSE, name) /\ Exists(fs, Entry(path, name)))
        => /\ Selected'
           /\ ParsePath(result') = Entry(path, name)
           /\ result'[1] = "/"
           /\ fs' = fs]_vars

\* the token of file a taken in /s returned "/s/a"
C15_Witness ==
    /\ pc = "done" /\ opt \in {"1", "2"}
    /\ result = <<"/", "s", "/", "a">>
    /\ Kind(fs, P(TRUE, <<"s", "a">>)) = "file"

(* C16: token "b" in Browsing(p) sets current_path to the parent of p and  *)
(* stays in Browsing; when p is a filesystem root current_path stays that  *)
(* root.                                                                   *)
C16_BackGoesToParent ==
    [][(Resolved /\ opt' = "b")
        => /\ Browsing'
           /\ path' = ParentOf(path)
           /\ path.segs = <<>> => path' = path
           /\ path.segs # <<>> => Len(path'.segs) = Len(path.segs) - 1
           /\ result' = result
           /\ fs' = fs]_vars

\* "b" taken in /s/s: the navigator is back in /s
C16_Witness ==
    /\ pc = "list" /\ opt = "b"
    /\ path = P(TRUE, <<"s">>)

(* C17: in every Browsing state, whatever current_path and the token table *)
(* are, token "0" ends the browsing in Cancelled: get_file_path returns    *)
(* the empty string and changes nothing on the filesystem.                 *)
C17_ZeroCancels ==
    [][(Resolved /\ opt' = "0")
        => /\ Cancelled'
           /\ result' = <<>>
           /\ fs' = fs
           /\ denied' = denied]_vars

\* "0" taken in /s/s, away from the working directory, with a listing shown
C17_Witness ==
    /\ pc = "done" /\ opt = "0" /\ result = <<>>
    /\ path = P(TRUE, <<"s", "s">>)
    /\ dirs_ # EmptyTable

(* C18: in the generation of the navigator that offers it, token "d" in    *)
(* Browsing(p) ends the browsing at once in Selected, the returned path    *)
(* being p, the current directory itself, whatever the token table is.     *)
C18_DirectoryTokenSelectsCurrent ==
    [][(Resolved /\ opt' = "d" /\ variant = "new")
        => /\ Selected'
           /\ ParsePath(result') = path
           /\ path' = path
           /\ fs' = fs]_vars

\* "d" taken in /s/s returned "/s/s"
C18_Witness ==
    /\ pc = "done" /\ opt = "d" /\ variant = "new"
    /\ result = <<"/", "s", "/", "s">>

(* C19: a token that is neither reserved nor a key of the token table      *)
(* leaves the navigator in Browsing with the same current_path and changes *)
(* nothing on the filesystem; the next iteration renders that directory    *)
(* again.                                                                  *)
C19_UnknownTokenRerenders ==
    [][(Resolved /\ opt' \notin ReservedIn(variant) /\ opt' \notin DOMAIN dirs_)
        => /\ pc' = "list"
           /\ path' = path
           /\ result' = result
           /\ msg' = msg
           /\ fs' = fs
           /\ denied' = denied]_vars

\* "x" taken in /s: the navigator is about to render /s again
C19_Witness ==
    /\ pc = "list" /\ opt = "x"
    /\ path = P(TRUE, <<"s">>)
    /\ result = <<>>

(* C20: get_time_offset raises an out-of-range error and leaves both       *)
(* points as they are unless set_start_point and set_end_point both ran    *)
(* since the last read that returned (missing start when set_start_point   *)
(* did not run, else missing end); a read that returns resets both points, *)
(* so a second read with no set_start_point or set_end_point in between    *)
(* raises the missing-start error.                                         *)
C20_ReadNeedsBothPoints ==
    [][(timed'.n # timed.n /\ timed'.op = "get_time_offset")
        => /\ timed'.thrown = ~({"start", "end"} \subseteq marks)
           /\ timed'.thrown
                => /\ start_point_' = start_point_ /\ end_point_' = end_point_
                   /\ timed'.what = IF "start" \notin marks
                                    THEN "Time.err(): missing start point"
                                    ELSE "Time.err(): missing end point"
           /\ ~timed'.thrown => (start_point_' = 0 /\ end_point_' = 0)
           /\ (timed.op = "get_time_offset" /\ ~timed.thrown)
                => (timed'.thrown /\ timed'.what = "Time.err(): missing start point")]_vars

\* a read with the start point set and the end point missing threw and kept
\* the start point
C20_Witness ==
    /\ timed.op = "get_time_offset" /\ timed.thrown
    /\ timed.what = "Time.err(): missing end point"
    /\ start_point_ > 0 /\ end_point_ = 0
    /\ marks = {"start"}

\* the token is an integer: an optional sign and then decimal digits only,
\* at least one, the value being an int
IsInteger(token) ==
    LET body == IF token # <<>> /\ token[1] \in {"+", "-"} THEN Tail(token) ELSE token
    IN  /\ body # <<>>
        /\ \A i \in 1..Len(body) : body[i] \in Digits
        /\ ~Stoi(token).thrown

(* C21: get_correct_int passes no failure on to its caller: for each token *)
(* that does not parse as an integer it prints an error message, clears    *)
(* the input stream and reads again; it returns only after a token parsed, *)
(* and returns that token's integer.                                       *)
C21_RetriesUntilInteger ==
    [][~is_correct =>
        /\ ~IsInteger(input_value')
             => (errors' = errors + 1 /\ ~is_correct')
        /\ is_correct'
             => (IsInteger(input_value') /\ int_result' = Stoi(input_value').value)]_vars

Target == Entry(path, filename')

\* every node but n is in f2 what it is in f1, and no node came or went
OthersUnchanged(f1, f2, n) ==
    /\ DOMAIN f2 = DOMAIN f1
    /\ \A k \in DOMAIN f1 : k # n => f2[k] = f1[k]

(* C23 as stated: when the filename entered after "c" names a regular file *)
(* that exists in current_path, that file's contents are discarded, it is  *)
(* left with zero bytes, and the contents of every other file are          *)
(* unchanged.                                                              *)
C23_CreateTruncatesExisting ==
    [][(Created /\ Kind(fs, Target) = "file")
        => /\ fs'[Node(Target)] = [dir |-> FALSE, data |-> <<>>]
           /\ OthersUnchanged(fs, fs', Node(Target))]_vars

(* C23 amended: when the filename entered after "c" names a regular file   *)
(* that exists in current_path and that the permissions let be opened for  *)
(* writing, that file's contents are discarded, it is left with zero       *)
(* bytes, and every other file is unchanged; when the file cannot be       *)
(* opened for writing no file changes.                                     *)
C23_CreateTruncatesWritable ==
    [][(Created /\ Kind(fs, Target) = "file")
        => IF Node(Target) \notin denied
           THEN /\ fs'[Node(Target)] = [dir |-> FALSE, data |-> <<>>]
                /\ OthersUnchanged(fs, fs', Node(Target))
           ELSE fs' = fs]_vars

\* "c" with the name of /s/a, which held one byte, left it empty
C23_Witness ==
    /\ pc = "list" /\ opt = "c" /\ filename = "a" /\ envSteps = 0
    /\ path = P(TRUE, <<"s">>)
    /\ fs[<<"s", "a">>] = [dir |-> FALSE, data |-> <<>>]

====
